---- MODULE Spec2Model ----
(***************************************************************************)
(* Model of py-strsim (src/src/lib.rs): the eight single-pair string       *)
(* metrics of `mod single` and the batch evaluator `vectorized::vectorize` *)
(* that maps one metric over a candidate list inside a per-call rayon      *)
(* thread pool.                                                            *)
(*                                                                         *)
(* A string is a sequence of characters (Unicode scalar values); the       *)
(* metric bodies follow the algorithms of the `strsim` crate the wrappers  *)
(* of `mod single` delegate to.  f64 results are kept as exact fractions   *)
(* <<numerator, denominator>>.                                             *)
(***************************************************************************)
EXTENDS Integers, Sequences, FiniteSets, TLC

\* ------------------------------------------------------------------------
\*  Bounds
\* ------------------------------------------------------------------------

\* longest string of the three-letter alphabet given to a metric
MaxLen == 3
\* longest string given together with one of up to MaxLen characters
MaxMid == 2
\* lengths of the two-letter strings given to a metric as a pair
ShortLen == 4
LongLen == 6
\* longest candidate list, largest requested worker count of a batch call
MaxCands == 2
MaxWorkers == 2
\* threads rayon picks when asked for 0 threads (logical CPUs of the host)
DefaultThreads == 2

Alphabet == {"a", "b", "c"}
Binary == {"a", "b"}

StrUpTo(alpha, n) == UNION {[1..k -> alpha] : k \in 0..n}

Min(x, y) == IF x <= y THEN x ELSE y
Max(x, y) == IF x >= y THEN x ELSE y

\* ------------------------------------------------------------------------
\*  Fractions standing for f64 results
\* ------------------------------------------------------------------------

FracEq(p, q) == p[1] * q[2] = q[1] * p[2]
FracLe(p, q) == p[1] * q[2] <= q[1] * p[2]

\* ------------------------------------------------------------------------
\*  single::levenshtein
\* ------------------------------------------------------------------------

\* inner loop over b for one element of a; yields <<result, cache>>
RECURSIVE LevRow(_, _, _, _, _, _)
LevRow(a_elem, b, j, result, distance_b, cache) ==
    IF j > Len(b) THEN <<result, cache>>
    ELSE LET cost == IF a_elem = b[j] THEN 0 ELSE 1
             distance_a == distance_b + cost
             r == Min(result + 1, Min(distance_a, cache[j] + 1))
         IN  LevRow(a_elem, b, j + 1, r, cache[j], [cache EXCEPT ![j] = r])

RECURSIVE LevLoop(_, _, _, _, _)
LevLoop(a, b, i, result, cache) ==
    IF i > Len(a) THEN result
    ELSE LET row == LevRow(a[i], b, 1, i, i - 1, cache)
         IN  LevLoop(a, b, i + 1, row[1], row[2])

levenshtein(a, b) ==
    IF Len(a) = 0 THEN Len(b)
    ELSE LevLoop(a, b, 1, 0, [j \in 1..Len(b) |-> j])

\* ------------------------------------------------------------------------
\*  single::osa_distance
\* ------------------------------------------------------------------------

\* inner loop; prev / prev2 / curr are indexed 0..Len(b); "" stands for char::MAX
RECURSIVE OsaRow(_, _, _, _, _, _, _, _)
OsaRow(a, b, i, j, prev2, prev, curr, prev_chars) ==
    IF j > Len(b) THEN <<curr, prev_chars[2]>>
    ELSE LET cost == IF a[i] = b[j] THEN 0 ELSE 1
             base == Min(curr[j - 1] + 1, Min(prev[j] + 1, prev[j - 1] + cost))
             v == IF /\ i > 1 /\ j > 1 /\ a[i] # b[j]
                     /\ a[i] = prev_chars[2] /\ b[j] = prev_chars[1]
                  THEN Min(base, prev2[j - 2] + 1)
                  ELSE base
         IN  OsaRow(a, b, i, j + 1, prev2, prev, [curr EXCEPT ![j] = v],
                    <<prev_chars[1], b[j]>>)

RECURSIVE OsaLoop(_, _, _, _, _, _, _)
OsaLoop(a, b, i, prev2, prev, curr, prev_chars) ==
    IF i > Len(a) THEN curr[Len(b)]
    ELSE LET row == OsaRow(a, b, i, 1, prev2, prev, [curr EXCEPT ![0] = i],
                           prev_chars)
         IN  OsaLoop(a, b, i + 1, prev, row[1], row[1], <<a[i], row[2]>>)

osa_distance(a, b) ==
    IF a = b THEN 0
    ELSE IF Len(a) = 0 THEN Len(b)
    ELSE IF Len(b) = 0 THEN Len(a)
    ELSE OsaLoop(a, b, 1, [j \in 0..Len(b) |-> j], [j \in 0..Len(b) |-> j],
                 [j \in 0..Len(b) |-> 0], <<"", "">>)

\* ------------------------------------------------------------------------
\*  single::damerau_levenshtein
\* ------------------------------------------------------------------------

flat_index(i, j, width) == j * width + i

\* variants of damerau_levenshtein: the restricted (optimal string alignment)
\* distance, and the distance without transpositions
damerau_levenshtein_restricted(a, b) == osa_distance(a, b)

damerau_levenshtein_plain(a, b) == levenshtein(a, b)

\* inner loop over j for row i; yields the distances array
RECURSIVE DlRow(_, _, _, _, _, _, _)
DlRow(a, b, i, j, db, elems, distances) ==
    IF j > Len(b) THEN distances
    ELSE LET width == Len(a) + 2
             k == elems[b[j]]
             insertion_cost == distances[flat_index(i, j + 1, width)] + 1
             deletion_cost == distances[flat_index(i + 1, j, width)] + 1
             transposition_cost ==
                 distances[flat_index(k, db, width)] + (i - k - 1) + 1 + (j - db - 1)
             same == a[i] = b[j]
             substitution_cost ==
                 distances[flat_index(i, j, width)] + (IF same THEN 0 ELSE 1)
             v == Min(substitution_cost,
                      Min(insertion_cost, Min(deletion_cost, transposition_cost)))
         IN  DlRow(a, b, i, j + 1, IF same THEN j ELSE db, elems,
                   [distances EXCEPT ![flat_index(i + 1, j + 1, width)] = v])

RECURSIVE DlLoop(_, _, _, _, _)
DlLoop(a, b, i, elems, distances) ==
    IF i > Len(a) THEN distances[flat_index(Len(a) + 1, Len(b) + 1, Len(a) + 2)]
    ELSE DlLoop(a, b, i + 1, [elems EXCEPT ![a[i]] = i],
                DlRow(a, b, i, 1, 0, elems, distances))

damerau_levenshtein(a, b) ==
    IF Len(a) = 0 THEN Len(b)
    ELSE IF Len(b) = 0 THEN Len(a)
    ELSE LET width == Len(a) + 2
             max_distance == Len(a) + Len(b)
             chars == {a[x] : x \in 1..Len(a)} \cup {b[x] : x \in 1..Len(b)}
             init == [x \in 0..(width * (Len(b) + 2) - 1) |->
                        LET i == x % width
                            j == x \div width
                        IN  IF i = 0 \/ j = 0 THEN max_distance
                            ELSE IF j = 1 THEN i - 1
                            ELSE IF i = 1 THEN j - 1
                            ELSE 0]
         IN  DlLoop(a, b, 1, [ch \in chars |-> 0], init)

\* ------------------------------------------------------------------------
\*  single::normalized_levenshtein, single::normalized_damerau_levenshtein
\* ------------------------------------------------------------------------

\* 1.0 - (dist as f64) / (max(a_len, b_len) as f64), and 1.0 for two empty strings
normalized_levenshtein(a, b) ==
    IF Len(a) = 0 /\ Len(b) = 0 THEN <<1, 1>>
    ELSE <<Max(Len(a), Len(b)) - levenshtein(a, b), Max(Len(a), Len(b))>>

normalized_damerau_levenshtein(a, b) ==
    IF Len(a) = 0 /\ Len(b) = 0 THEN <<1, 1>>
    ELSE <<Max(Len(a), Len(b)) - damerau_levenshtein(a, b), Max(Len(a), Len(b))>>

\* ------------------------------------------------------------------------
\*  single::jaro, single::jaro_winkler
\*
\*  The source does not pin the release of strsim it is built against; the
\*  two Jaro algorithms strsim has shipped are both modelled and the release
\*  is an input of the model: "0.10" (match scan that counts a transposition
\*  whenever a match lies left of the previous one) and "0.11" (flags on both
\*  strings, mismatching matched pairs halved).
\* ------------------------------------------------------------------------

Versions == {"0.10", "0.11"}

SetMin(S) == CHOOSE x \in S : \A y \in S : x <= y

\* (m/|a| + m/|b| + (m - t)/m) / 3 as a fraction
JaroValue(m, t, a_len, b_len) ==
    IF m = 0 THEN <<0, 1>>
    ELSE <<m * m * b_len + m * m * a_len + (m - t) * a_len * b_len,
           3 * a_len * b_len * m>>

\* indices j (from 0) of b that the element a[i] (i from 0) may be matched with
JaroWindow(a, b, i, search_range, taken) ==
    LET min_bound == IF i > search_range THEN i - search_range ELSE 0
        max_bound == Min(Len(b) - 1, i + search_range)
    IN  {j \in min_bound..max_bound : a[i + 1] = b[j + 1] /\ ~taken[j]}

\* strsim 0.10: st = [consumed, matches, transpositions, b_match_index]
RECURSIVE JaroScan10(_, _, _, _, _)
JaroScan10(a, b, i, search_range, st) ==
    IF i >= Len(a) THEN st
    ELSE LET cand == JaroWindow(a, b, i, search_range, st.consumed)
         IN  IF cand = {} THEN JaroScan10(a, b, i + 1, search_range, st)
             ELSE LET j == SetMin(cand)
                  IN  JaroScan10(a, b, i + 1, search_range,
                        [consumed |-> [st.consumed EXCEPT ![j] = TRUE],
                         matches |-> st.matches + 1,
                         transpositions |-> st.transpositions
                                             + (IF j < st.b_match_index THEN 1 ELSE 0),
                         b_match_index |-> j])

jaro10(a, b) ==
    IF Len(a) = 0 /\ Len(b) = 0 THEN <<1, 1>>
    ELSE IF Len(a) = 0 \/ Len(b) = 0 THEN <<0, 1>>
    ELSE IF Len(a) = 1 /\ Len(b) = 1 THEN (IF a = b THEN <<1, 1>> ELSE <<0, 1>>)
    ELSE LET search_range == (Max(Len(a), Len(b)) \div 2) - 1
             st == JaroScan10(a, b, 0, search_range,
                     [consumed |-> [j \in 0..(Len(b) - 1) |-> FALSE],
                      matches |-> 0, transpositions |-> 0, b_match_index |-> 0])
         IN  JaroValue(st.matches, st.transpositions, Len(a), Len(b))

\* strsim 0.11: st = [a_flags, b_flags, matches]
RECURSIVE JaroScan11(_, _, _, _, _)
JaroScan11(a, b, i, search_range, st) ==
    IF i >= Len(a) THEN st
    ELSE LET cand == JaroWindow(a, b, i, search_range, st.b_flags)
         IN  IF cand = {} THEN JaroScan11(a, b, i + 1, search_range, st)
             ELSE LET j == SetMin(cand)
                  IN  JaroScan11(a, b, i + 1, search_range,
                        [a_flags |-> [st.a_flags EXCEPT ![i] = TRUE],
                         b_flags |-> [st.b_flags EXCEPT ![j] = TRUE],
                         matches |-> st.matches + 1])

\* the flagged elements of s, in order
Flagged(s, flags) == SelectSeq([x \in 1..Len(s) |-> <<s[x], flags[x - 1]>>],
                               LAMBDA e : e[2])

jaro11(a, b) ==
    IF Len(a) = 0 /\ Len(b) = 0 THEN <<1, 1>>
    ELSE IF Len(a) = 0 \/ Len(b) = 0 THEN <<0, 1>>
    ELSE LET half == Max(Len(a), Len(b)) \div 2
             search_range == IF half = 0 THEN 0 ELSE half - 1
             st == JaroScan11(a, b, 0, search_range,
                     [a_flags |-> [i \in 0..(Len(a) - 1) |-> FALSE],
                      b_flags |-> [j \in 0..(Len(b) - 1) |-> FALSE],
                      matches |-> 0])
             fa == Flagged(a, st.a_flags)
             fb == Flagged(b, st.b_flags)
             mismatched == Cardinality({x \in 1..Len(fa) : fa[x][1] # fb[x][1]})
         IN  JaroValue(st.matches, mismatched \div 2, Len(a), Len(b))

jaro(version, a, b) == IF version = "0.10" THEN jaro10(a, b) ELSE jaro11(a, b)

RECURSIVE CommonPrefix(_, _, _)
CommonPrefix(a, b, n) ==
    IF n < Len(a) /\ n < Len(b) /\ a[n + 1] = b[n + 1]
    THEN CommonPrefix(a, b, n + 1) ELSE n

\* jaro + 0.1 * prefix * (1 - jaro); 0.10 clamps at 1.0, 0.11 caps the prefix
\* at 4 and boosts only above 0.7
jaro_winkler(version, a, b) ==
    LET sim == jaro(version, a, b)
        prefix == CommonPrefix(a, b, 0)
        Boost(p) == <<10 * sim[1] + p * (sim[2] - sim[1]), 10 * sim[2]>>
    IN  IF version = "0.10"
        THEN (IF FracLe(Boost(prefix), <<1, 1>>) THEN Boost(prefix) ELSE <<1, 1>>)
        ELSE (IF ~FracLe(sim, <<7, 10>>) THEN Boost(Min(prefix, 4)) ELSE sim)

\* ------------------------------------------------------------------------
\*  single::sorensen_dice
\* ------------------------------------------------------------------------

bigrams(s) == [x \in 1..(Len(s) - 1) |-> <<s[x], s[x + 1]>>]

\* walk the bigrams of b, taking each one still left in a's multiset
RECURSIVE DiceIntersect(_, _, _, _)
DiceIntersect(a_bigrams, b_bi, x, intersection_size) ==
    IF x > Len(b_bi) THEN intersection_size
    ELSE IF b_bi[x] \in DOMAIN a_bigrams /\ a_bigrams[b_bi[x]] > 0
         THEN DiceIntersect([a_bigrams EXCEPT ![b_bi[x]] = @ - 1], b_bi, x + 1,
                            intersection_size + 1)
         ELSE DiceIntersect(a_bigrams, b_bi, x + 1, intersection_size)

\* the strings of the model hold no whitespace, so the whitespace filter keeps them
sorensen_dice(a, b) ==
    IF Len(a) = 0 /\ Len(b) = 0 THEN <<1, 1>>
    ELSE IF Len(a) = 0 \/ Len(b) = 0 THEN <<0, 1>>
    ELSE IF a = b THEN <<1, 1>>
    ELSE IF Len(a) = 1 /\ Len(b) = 1 THEN <<0, 1>>
    ELSE IF Len(a) < 2 \/ Len(b) < 2 THEN <<0, 1>>
    ELSE LET a_bi == bigrams(a)
             keys == {a_bi[x] : x \in 1..Len(a_bi)}
             a_bigrams == [k \in keys |->
                             Cardinality({x \in 1..Len(a_bi) : a_bi[x] = k})]
         IN  <<2 * DiceIntersect(a_bigrams, bigrams(b), 1, 0), Len(a) + Len(b) - 2>>

\* ------------------------------------------------------------------------
\*  The eight functions of `mod single`, by name
\* ------------------------------------------------------------------------

IntMetrics == {"levenshtein", "damerau_levenshtein", "osa_distance"}
FloatMetrics == {"jaro", "jaro_winkler", "normalized_levenshtein",
                 "normalized_damerau_levenshtein", "sorensen_dice"}
Metrics == IntMetrics \cup FloatMetrics

\* an integer distance d is carried as the fraction d/1
Metric(f, version, a, b) ==
    CASE f = "levenshtein" -> <<levenshtein(a, b), 1>>
      [] f = "damerau_levenshtein" -> <<damerau_levenshtein(a, b), 1>>
      [] f = "osa_distance" -> <<osa_distance(a, b), 1>>
      [] f = "jaro" -> jaro(version, a, b)
      [] f = "jaro_winkler" -> jaro_winkler(version, a, b)
      [] f = "normalized_levenshtein" -> normalized_levenshtein(a, b)
      [] f = "normalized_damerau_levenshtein" -> normalized_damerau_levenshtein(a, b)
      [] f = "sorensen_dice" -> sorensen_dice(a, b)

\* ------------------------------------------------------------------------
\*  State
\* ------------------------------------------------------------------------

VARIABLES
    probe,      \* the last single-pair evaluation: its arguments and results
    request,    \* what the batch calls are made with: metric f, reference a, candidates bs
    pc,         \* per batch call: "idle", "install" (inside ThreadPool::install), "ok", "err"
    args,       \* per batch call: the arguments n, a, bs it was entered with
    pool,       \* per batch call: the rayon::ThreadPool it built, or NoPool
    live,       \* ids of the thread pools built and not yet dropped
    built,      \* number of thread pools built so far
    pending,    \* per batch call: candidate indices no worker has taken yet
    running,    \* per batch call: for each pool thread, the index it evaluates (0: none)
    slots,      \* per batch call: the collect target, one slot per candidate
    evals,      \* per batch call and index: evaluations of f started
    writes,     \* per batch call and index: writes of the slot
    ret,        \* per batch call: the PyResult returned, or NoRet
    host        \* per batch call: whether the host could spawn the pool's threads

batchVars == <<request, pc, args, pool, live, built, pending, running, slots,
               evals, writes, ret, host>>

vars == <<probe, request, pc, args, pool, live, built, pending, running, slots,
          evals, writes, ret, host>>

\* ------------------------------------------------------------------------
\*  Batch calls: vectorized::create_thread_pool, vectorized::vectorize
\* ------------------------------------------------------------------------

Calls == {"c1", "c2"}

\* metrics, reference and candidate strings the batch calls are made with
BatchMetrics == {"levenshtein", "sorensen_dice"}
Reference == <<"a", "b">>
CandStrings == {<<"a", "b">>, <<"b">>}
\* candidate lists: the two candidate strings in turn, starting with either
CandLists ==
    {[i \in 1..k |-> IF i % 2 = 1 THEN first ELSE CHOOSE s \in CandStrings : s # first] :
       k \in 0..MaxCands, first \in CandStrings}
Requests == [f : BatchMetrics, a : {Reference}, bs : CandLists]

NoPool == [id |-> 0, num_threads |-> 0]
NoRet == [kind |-> "none"]
NoArgs == [n |-> 0, a |-> <<>>, bs |-> <<>>]
Empty == <<>>

\* variants of num_threads: the count taken literally, and one thread too many
NumThreads_literal(n) == n

NumThreads_extra(n) == IF n = 0 THEN DefaultThreads ELSE n + 1

\* ThreadPoolBuilder::num_threads(n): 0 threads asks rayon for its default
NumThreads(n) == IF n = 0 THEN DefaultThreads ELSE n

\* variants of create_thread_pool: a failed build tried again until it
\* succeeds, and one process-wide pool handed to every call
create_thread_pool_retry(n, spawned, id) ==
    [kind |-> "Ok", val |-> [id |-> id, num_threads |-> IF n = 0 THEN DefaultThreads ELSE n]]

create_thread_pool_global(n, spawned, id) ==
    IF spawned
    THEN [kind |-> "Ok", val |-> [id |-> 1, num_threads |-> IF n = 0 THEN DefaultThreads ELSE n]]
    ELSE [kind |-> "Err", val |-> "failed to allocate threads"]

\* build() either spawns the threads of a new pool or fails, and the failure
\* is mapped to the PyOSError
create_thread_pool(n, spawned, id) ==
    IF spawned
    THEN [kind |-> "Ok", val |-> [id |-> id, num_threads |-> NumThreads(n)]]
    ELSE [kind |-> "Err", val |-> "failed to allocate threads"]

\* variant of collect: the slots in reverse order
collect_reversed(target) == [i \in 1..Len(target) |-> target[Len(target) + 1 - i]]

\* collect(): the slots in index order
collect(target) == [i \in 1..Len(target) |-> target[i]]

Busy(c) == {w \in DOMAIN running[c] : running[c][w] # 0}

\* vectorize(f, n, a, bs) is entered and builds its pool; `?` returns the error
VectorizeCall(c) ==
    /\ pc[c] = "idle"
    /\ \E n \in 0..MaxWorkers, spawned \in BOOLEAN :
         LET built_pool == create_thread_pool(n, spawned, built + 1)
             len == Len(request.bs)
         IN  /\ args' = [args EXCEPT ![c] = [n |-> n, a |-> request.a, bs |-> request.bs]]
             /\ host' = [host EXCEPT ![c] = IF spawned THEN "spawned" ELSE "exhausted"]
             /\ IF built_pool.kind = "Ok"
                THEN /\ pc' = [pc EXCEPT ![c] = "install"]
                     /\ pool' = [pool EXCEPT ![c] = built_pool.val]
                     /\ live' = live \cup {built_pool.val.id}
                     /\ built' = built + 1
                     /\ pending' = [pending EXCEPT ![c] = 1..len]
                     /\ running' = [running EXCEPT
                                      ![c] = [w \in 1..built_pool.val.num_threads |-> 0]]
                     /\ slots' = [slots EXCEPT ![c] = [i \in 1..len |-> Empty]]
                     /\ evals' = [evals EXCEPT ![c] = [i \in 1..len |-> 0]]
                     /\ writes' = [writes EXCEPT ![c] = [i \in 1..len |-> 0]]
                     /\ ret' = ret
                ELSE /\ pc' = [pc EXCEPT ![c] = "err"]
                     /\ ret' = [ret EXCEPT ![c] = built_pool]
                     /\ UNCHANGED <<pool, live, built, pending, running, slots,
                                    evals, writes>>
    /\ UNCHANGED <<probe, request>>

\* variant of ParIterStart: the candidate taken stays available to other threads
ParIterStart_shared(c, w, i) ==
    /\ pc[c] = "install"
    /\ w \in DOMAIN running[c]
    /\ running[c][w] = 0
    /\ i \in pending[c]
    /\ running' = [running EXCEPT ![c][w] = i]
    /\ evals' = [evals EXCEPT ![c][i] = @ + 1]
    /\ UNCHANGED <<probe, request, pc, args, pool, live, built, pending, slots,
                   writes, ret, host>>

\* a thread of the call's pool takes the next candidate of its share of
\* bs.par_iter() and starts f(a, b) on it
ParIterStart(c, w, i) ==
    /\ pc[c] = "install"
    /\ w \in DOMAIN running[c]
    /\ running[c][w] = 0
    /\ i \in pending[c]
    /\ pending' = [pending EXCEPT ![c] = @ \ {i}]
    /\ running' = [running EXCEPT ![c][w] = i]
    /\ evals' = [evals EXCEPT ![c][i] = @ + 1]
    /\ UNCHANGED <<probe, request, pc, args, pool, live, built, slots, writes, ret,
                   host>>

\* f(a, b) returns and its value goes into the slot of the candidate's index
ParIterFinish(c, w) ==
    /\ pc[c] = "install"
    /\ w \in DOMAIN running[c]
    /\ running[c][w] # 0
    /\ LET i == running[c][w]
       IN  /\ slots' = [slots EXCEPT
                          ![c][i] = Metric(request.f, "0.10", args[c].a, args[c].bs[i])]
           /\ writes' = [writes EXCEPT ![c][i] = @ + 1]
    /\ running' = [running EXCEPT ![c][w] = 0]
    /\ UNCHANGED <<probe, request, pc, args, pool, live, built, pending, evals, ret,
                   host>>

\* variant of VectorizeReturn: install() returns as soon as every candidate
\* has been taken, without waiting for the evaluations under way
VectorizeReturn_early(c) ==
    /\ pc[c] = "install"
    /\ pending[c] = {}
    /\ ret' = [ret EXCEPT ![c] = [kind |-> "Ok", val |-> [i \in 1..Len(slots[c]) |-> slots[c][i]]]]
    /\ live' = live \ {pool[c].id}
    /\ pc' = [pc EXCEPT ![c] = "ok"]
    /\ UNCHANGED <<probe, request, args, pool, built, pending, running, slots,
                   evals, writes, host>>

\* install() returns once the whole iterator is consumed; the pool, a
\* temporary of vectorize, is dropped and Ok(list) is returned
VectorizeReturn(c) ==
    /\ pc[c] = "install"
    /\ pending[c] = {}
    /\ Busy(c) = {}
    /\ ret' = [ret EXCEPT ![c] = [kind |-> "Ok", val |-> collect(slots[c])]]
    /\ live' = live \ {pool[c].id}
    /\ pc' = [pc EXCEPT ![c] = "ok"]
    /\ UNCHANGED <<probe, request, args, pool, built, pending, running, slots,
                   evals, writes, host>>

InitBatch ==
    /\ pc = [c \in Calls |-> "idle"]
    /\ args = [c \in Calls |-> NoArgs]
    /\ pool = [c \in Calls |-> NoPool]
    /\ live = {}
    /\ built = 0
    /\ pending = [c \in Calls |-> {}]
    /\ running = [c \in Calls |-> <<>>]
    /\ slots = [c \in Calls |-> <<>>]
    /\ evals = [c \in Calls |-> <<>>]
    /\ writes = [c \in Calls |-> <<>>]
    /\ ret = [c \in Calls |-> NoRet]
    /\ host = [c \in Calls |-> "unknown"]

NoProbe == [kind |-> "none"]

Init ==
    /\ probe = NoProbe
    /\ request \in Requests
    /\ InitBatch

Step(c) ==
    \/ \E w \in 1..Max(MaxWorkers, DefaultThreads), i \in 1..MaxCands :
         ParIterStart(c, w, i)
    \/ \E w \in 1..Max(MaxWorkers, DefaultThreads) : ParIterFinish(c, w)
    \/ VectorizeReturn(c)

Next == \E c \in Calls : VectorizeCall(c) \/ Step(c)

Spec == Init /\ [][Next]_vars

\* one batch call on its own, the threads of its pool and the thread blocked
\* in install() scheduled fairly
NextOne == VectorizeCall("c1") \/ Step("c1")

FairSpec == Init /\ [][NextOne]_vars /\ WF_vars(Step("c1"))

\* ------------------------------------------------------------------------
\*  Calls of the functions of `mod single`
\* ------------------------------------------------------------------------

Strings == StrUpTo(Alphabet, MaxLen)
MidStrings == StrUpTo(Alphabet, MaxMid)
BinaryMidStrings == StrUpTo(Binary, MaxMid)
ShortStrings == [1..ShortLen -> Binary]
LongStrings == [1..LongLen -> Binary]

\* argument pairs: a short and a longer three-letter string, and two-letter
\* strings of ShortLen and of LongLen characters
Pairs == (MidStrings \X Strings) \cup (ShortStrings \X LongStrings)

\* the two integer distances the triangle inequality is claimed for
Distances == {"levenshtein", "damerau_levenshtein"}

\* the metrics whose algorithm differs between the strsim releases
Rewritten == {"jaro", "jaro_winkler"}

\* every metric applied to (a, b) and to (b, a): ab, ba with strsim 0.10, and
\* ab11, ba11 the results that strsim 0.11 computes differently
EvalPair ==
    /\ probe = NoProbe
    /\ \E p \in Pairs :
         probe' = [kind |-> "pair", a |-> p[1], b |-> p[2],
                   ab |-> [f \in Metrics |-> Metric(f, "0.10", p[1], p[2])],
                   ba |-> [f \in Metrics |-> Metric(f, "0.10", p[2], p[1])],
                   ab11 |-> [f \in Rewritten |-> Metric(f, "0.11", p[1], p[2])],
                   ba11 |-> [f \in Rewritten |-> Metric(f, "0.11", p[2], p[1])]]
    /\ UNCHANGED batchVars

\* the two distances applied along the three sides of (a, b, c)
EvalTriple ==
    /\ probe = NoProbe
    /\ \E a \in MidStrings, b \in BinaryMidStrings, c \in Strings :
         probe' = [kind |-> "triple", a |-> a, b |-> b, c |-> c,
                   ac |-> [f \in Distances |-> Metric(f, "0.10", a, c)[1]],
                   ab |-> [f \in Distances |-> Metric(f, "0.10", a, b)[1]],
                   bc |-> [f \in Distances |-> Metric(f, "0.10", b, c)[1]]]
    /\ UNCHANGED batchVars

InitSingle ==
    /\ probe = NoProbe
    /\ request = [f |-> "levenshtein", a |-> Reference, bs |-> <<>>]
    /\ InitBatch

SpecPair == InitSingle /\ [][EvalPair]_vars

SpecTriple == InitSingle /\ [][EvalTriple]_vars

\* ------------------------------------------------------------------------
\*  Properties of the batch calls (Spec, FairSpec)
\* ------------------------------------------------------------------------

AllocError == [kind |-> "Err", val |-> "failed to allocate threads"]

\* C1: a successful batch call returns a list as long as the candidate list
\* whose element i is metric(reference, candidate i), whatever the worker
\* count and the order the workers finish in; two successful calls with the
\* same reference and candidates return the same list.
C1_BatchResult ==
    /\ \A c \in Calls :
         pc[c] = "ok" =>
           /\ ret[c].kind = "Ok"
           /\ Len(ret[c].val) = Len(args[c].bs)
           /\ \A i \in 1..Len(args[c].bs) :
                ret[c].val[i] = Metric(request.f, "0.10", args[c].a, args[c].bs[i])
    /\ \A c \in Calls, d \in Calls :
         (pc[c] = "ok" /\ pc[d] = "ok" /\ args[c].a = args[d].a /\ args[c].bs = args[d].bs)
           => ret[c].val = ret[d].val

\* a call with one worker and a call with two workers have both returned the
\* results of two candidates whose results differ
C1_Witness ==
    /\ pc["c1"] = "ok" /\ pc["c2"] = "ok"
    /\ args["c1"].n = 1 /\ args["c2"].n = 2
    /\ Len(ret["c1"].val) = 2
    /\ ret["c1"].val[1] # ret["c1"].val[2]

C3_AtomicFailure ==
    /\ [](\A c \in Calls :
            host[c] = "exhausted" =>
              /\ pc[c] = "err"
              /\ ret[c] = AllocError
              /\ pool[c] = NoPool
              /\ pending[c] = {} /\ running[c] = <<>>
              /\ slots[c] = <<>> /\ evals[c] = <<>> /\ writes[c] = <<>>)
    /\ [][\A c \in Calls :
            pc[c] = "err" =>
              /\ pc'[c] = "err" /\ ret'[c] = ret[c] /\ pool'[c] = pool[c]
              /\ host'[c] = host[c]]_vars

\* a call over a non-empty candidate list has failed while the other call
\* is evaluating
C3_Witness ==
    /\ pc["c1"] = "err" /\ host["c1"] = "exhausted"
    /\ Len(args["c1"].bs) >= 1
    /\ pc["c2"] = "install" /\ Busy("c2") # {}

C8_JoinBarrier ==
    /\ [](\A c \in Calls :
            pc[c] = "ok" =>
              /\ pending[c] = {} /\ Busy(c) = {}
              /\ \A i \in 1..Len(args[c].bs) : writes[c][i] >= 1 /\ slots[c][i] # Empty)
    /\ \A c \in Calls : (pc[c] = "install") ~> (pc[c] = "ok")

\* a call with two workers has returned after both of its two candidates
\* were evaluated
C8_Witness ==
    /\ pc["c1"] = "ok" /\ args["c1"].n = 2 /\ Len(args["c1"].bs) = 2
    /\ writes["c1"][1] = 1 /\ writes["c1"][2] = 1
    /\ ret["c1"].kind = "Ok"

C10_ExactlyOnce ==
    /\ [](\A c \in Calls :
            /\ \A i \in DOMAIN evals[c] :
                 /\ evals[c][i] <= 1 /\ writes[c][i] <= evals[c][i]
                 /\ Cardinality({w \in DOMAIN running[c] : running[c][w] = i}) <= 1
                 /\ pc[c] = "ok" => (evals[c][i] = 1 /\ writes[c][i] = 1)
            /\ pc[c] = "ok" => DOMAIN evals[c] = 1..Len(args[c].bs))
    /\ [][\A c \in Calls :
            pc[c] = "install" => (args'[c] = args[c] /\ request' = request)]_vars

\* a call with two workers has returned the results of two candidates
C10_Witness ==
    \E c \in Calls :
      /\ pc[c] = "ok" /\ args[c].n = 2 /\ Len(args[c].bs) = 2
      /\ evals[c][1] = 1 /\ evals[c][2] = 1

\* ------------------------------------------------------------------------
\*  Properties of the single-pair metrics (SpecTriple, SpecPair)
\* ------------------------------------------------------------------------

\* C5: the Levenshtein and the Damerau-Levenshtein distance satisfy the
\* triangle inequality d(a, c) <= d(a, b) + d(b, c).
C5_Triangle ==
    probe.kind = "triple" =>
      \A f \in Distances : probe.ac[f] <= probe.ab[f] + probe.bc[f]

\* the triple ("ab", "ba", "bca"), on which the restricted distance fails
C5_Witness ==
    /\ probe.kind = "triple"
    /\ probe.a = <<"a", "b">> /\ probe.b = <<"b", "a">> /\ probe.c = <<"b", "c", "a">>
    /\ probe.ac["damerau_levenshtein"] = 2

\* C6: damerau_levenshtein(a, b) <= osa_distance(a, b) for all strings, and
\* damerau_levenshtein("ca", "abc") = 2 while osa_distance("ca", "abc") = 3.
C6_DamerauBelowOsa ==
    probe.kind = "pair" =>
      /\ probe.ab["damerau_levenshtein"][1] <= probe.ab["osa_distance"][1]
      /\ (probe.a = <<"c", "a">> /\ probe.b = <<"a", "b", "c">>) =>
           /\ probe.ab["damerau_levenshtein"] = <<2, 1>>
           /\ probe.ab["osa_distance"] = <<3, 1>>

\* the metrics were applied to ("ca", "abc")
C6_Witness ==
    /\ probe.kind = "pair"
    /\ probe.a = <<"c", "a">> /\ probe.b = <<"a", "b", "c">>
    /\ probe.ab["damerau_levenshtein"][1] < probe.ab["osa_distance"][1]

\* C7: each of the eight metrics is symmetric, metric(a, b) = metric(b, a),
\* whichever strsim release the functions are built against.
C7_Symmetric ==
    probe.kind = "pair" =>
      /\ \A f \in Metrics : FracEq(probe.ab[f], probe.ba[f])
      /\ \A f \in Rewritten : FracEq(probe.ab11[f], probe.ba11[f])

====
